---- MODULE Spec2Model ----
(***************************************************************************)
(* Model of src/Pendeteksi_jenis_sampah_organik_dan_anorganik.py:          *)
(* WasteDetector.predict_waste_type (the classifier) and csv_upload (the   *)
(* batch handler that applies it row by row).                              *)
(*                                                                         *)
(* Numbers.  The code computes with Python floats.  A confidence is kept   *)
(* here in thousandths (0.85 is 850, 1 is 1000), so that                   *)
(*   (kadar_air * 0.4 + suhu * 0.3) / 100  is  (kadar_air*400 + suhu*300)  *)
(* \div 100 thousandths, exact for integer inputs.  On every integer input *)
(* of the bounded domain below the IEEE-754 double evaluation of the       *)
(* source takes the same branch as this exact arithmetic and returns the   *)
(* same value up to one unit in the last place; double rounding moves the  *)
(* comparison of line 78 only at exact ties 4*kadar_air + 3*suhu = 500     *)
(* with kadar_air >= 116 (the first is kadar_air = 116, suhu = 12), which  *)
(* lie outside MaxKadarAir.                                                *)
(*                                                                         *)
(* Cells.  A value handed to the classifier is a number or, in batch mode, *)
(* a text that pandas could not read as a number.  Num(n) and Str(s) tag   *)
(* the two; comparing or multiplying a Str with a number raises TypeError, *)
(* as Python does, in the evaluation order of the source (`and` is         *)
(* short-circuit).  Numbers are finite: NaN and infinities are not cells.  *)
(*                                                                         *)
(* The file does not compile as it stands (manual_input_section has a      *)
(* second `else` at line 182, and main calls an undefined manual_input);   *)
(* the model follows predict_waste_type and csv_upload as they are         *)
(* written.                                                                *)
(***************************************************************************)
EXTENDS Integers, Sequences, FiniteSets, TLC

VARIABLES
    detector,       \* the WasteDetector object: its field `model`
    features,       \* the argument of the pending / last predict call
    result,         \* what that call returned
    pc,             \* position of the running handler
    calls,          \* the predict calls made so far: <<[features, result], ...>>
    uploaded_file,  \* csv_upload: the uploaded table, as text cells
    df,             \* csv_upload: pd.read_csv(uploaded_file)
    final_df,       \* csv_upload: pd.concat([df, results_df], axis=1)
    shown,          \* csv_upload: "Hasil Deteksi Batch" and final_df were rendered
    stats,          \* csv_upload: the two counters of the statistics columns
    download,       \* csv_upload: the download button was offered
    error           \* csv_upload: the exception the outer `except` reported ("" if none)

vars == <<detector, features, result, pc, calls, uploaded_file, df, final_df,
          shown, stats, download, error>>

-----------------------------------------------------------------------------
\* Bounds of the input domain.
MaxKadarAir == 110
MaxSuhu == 90
Below == 15
MaxCalls == 3
MaxRows == 3

\* One in thousandths: the `1` of `inorganic_score = 1 - organic_score`.
PerMille == 1000

Num(n) == [t |-> "num", v |-> n]
Str(s) == [t |-> "str", s |-> s]
IsNum(c) == c.t = "num"

BeratValues == {-5, 49, 50, 500}
VolumeValues == {-5, 99, 100, 500}
KadarAirValues == (0 - Below)..MaxKadarAir
SuhuValues == (0 - Below)..MaxSuhu

-----------------------------------------------------------------------------
\* Outcomes of a Python call.
Return(waste_type, confidence) ==
    [kind |-> "return", label |-> waste_type, confidence |-> confidence]
Raise(exc) == [kind |-> "raise", exc |-> exc]
NoResult == [kind |-> "none"]

\* WasteDetector.load_model: the dictionary wrapping the bound method.
load_model == [predict |-> "predict_waste_type"]

\* WasteDetector.__init__
WasteDetector == [model |-> load_model]

\* Variants of predict_waste_type, each with one slip in it.

\* Rule 2 tested before rule 1.
predict_rule2_first(self, feats) ==
    LET berat == feats[1]
        volume == feats[2]
        kadar_air == feats[3]
        suhu == feats[4]
    IN  IF ~IsNum(berat) THEN Raise("TypeError")
        ELSE IF berat.v < 50 /\ ~IsNum(volume) THEN Raise("TypeError")
        ELSE IF berat.v < 50 /\ volume.v < 100 THEN Return("ANORGANIK", 780)
        ELSE IF ~IsNum(kadar_air) THEN Raise("TypeError")
        ELSE IF kadar_air.v > 60 /\ ~IsNum(suhu) THEN Raise("TypeError")
        ELSE IF kadar_air.v > 60 /\ suhu.v > 25 THEN Return("ORGANIK", 850)
        ELSE IF ~IsNum(suhu) THEN Raise("TypeError")
        ELSE LET organic_score == (kadar_air.v * 400 + suhu.v * 300) \div 100
                 inorganic_score == PerMille - organic_score
             IN  IF organic_score > inorganic_score
                 THEN Return("ORGANIK", organic_score)
                 ELSE Return("ANORGANIK", inorganic_score)

\* Rule 2 with `berat <= 50`.
predict_rule2_inclusive(self, feats) ==
    LET berat == feats[1]
        volume == feats[2]
        kadar_air == feats[3]
        suhu == feats[4]
    IN  IF ~IsNum(kadar_air) THEN Raise("TypeError")
        ELSE IF kadar_air.v > 60 /\ ~IsNum(suhu) THEN Raise("TypeError")
        ELSE IF kadar_air.v > 60 /\ suhu.v > 25 THEN Return("ORGANIK", 850)
        ELSE IF ~IsNum(berat) THEN Raise("TypeError")
        ELSE IF berat.v <= 50 /\ ~IsNum(volume) THEN Raise("TypeError")
        ELSE IF berat.v <= 50 /\ volume.v < 100 THEN Return("ANORGANIK", 780)
        ELSE IF ~IsNum(suhu) THEN Raise("TypeError")
        ELSE LET organic_score == (kadar_air.v * 400 + suhu.v * 300) \div 100
                 inorganic_score == PerMille - organic_score
             IN  IF organic_score > inorganic_score
                 THEN Return("ORGANIK", organic_score)
                 ELSE Return("ANORGANIK", inorganic_score)

\* The fallback comparison with `>=`.
predict_tie_organic(self, feats) ==
    LET berat == feats[1]
        volume == feats[2]
        kadar_air == feats[3]
        suhu == feats[4]
    IN  IF ~IsNum(kadar_air) THEN Raise("TypeError")
        ELSE IF kadar_air.v > 60 /\ ~IsNum(suhu) THEN Raise("TypeError")
        ELSE IF kadar_air.v > 60 /\ suhu.v > 25 THEN Return("ORGANIK", 850)
        ELSE IF ~IsNum(berat) THEN Raise("TypeError")
        ELSE IF berat.v < 50 /\ ~IsNum(volume) THEN Raise("TypeError")
        ELSE IF berat.v < 50 /\ volume.v < 100 THEN Return("ANORGANIK", 780)
        ELSE IF ~IsNum(suhu) THEN Raise("TypeError")
        ELSE LET organic_score == (kadar_air.v * 400 + suhu.v * 300) \div 100
                 inorganic_score == PerMille - organic_score
             IN  IF organic_score >= inorganic_score
                 THEN Return("ORGANIK", organic_score)
                 ELSE Return("ANORGANIK", inorganic_score)

\* The last `else: return` missing: the function falls off its end and returns None.
predict_no_else(self, feats) ==
    LET berat == feats[1]
        volume == feats[2]
        kadar_air == feats[3]
        suhu == feats[4]
    IN  IF ~IsNum(kadar_air) THEN Raise("TypeError")
        ELSE IF kadar_air.v > 60 /\ ~IsNum(suhu) THEN Raise("TypeError")
        ELSE IF kadar_air.v > 60 /\ suhu.v > 25 THEN Return("ORGANIK", 850)
        ELSE IF ~IsNum(berat) THEN Raise("TypeError")
        ELSE IF berat.v < 50 /\ ~IsNum(volume) THEN Raise("TypeError")
        ELSE IF berat.v < 50 /\ volume.v < 100 THEN Return("ANORGANIK", 780)
        ELSE IF ~IsNum(suhu) THEN Raise("TypeError")
        ELSE LET organic_score == (kadar_air.v * 400 + suhu.v * 300) \div 100
                 inorganic_score == PerMille - organic_score
             IN  IF organic_score > inorganic_score
                 THEN Return("ORGANIK", organic_score)
                 ELSE NoResult

\* The division by 100 forgotten.
predict_unscaled(self, feats) ==
    LET berat == feats[1]
        volume == feats[2]
        kadar_air == feats[3]
        suhu == feats[4]
    IN  IF ~IsNum(kadar_air) THEN Raise("TypeError")
        ELSE IF kadar_air.v > 60 /\ ~IsNum(suhu) THEN Raise("TypeError")
        ELSE IF kadar_air.v > 60 /\ suhu.v > 25 THEN Return("ORGANIK", 850)
        ELSE IF ~IsNum(berat) THEN Raise("TypeError")
        ELSE IF berat.v < 50 /\ ~IsNum(volume) THEN Raise("TypeError")
        ELSE IF berat.v < 50 /\ volume.v < 100 THEN Return("ANORGANIK", 780)
        ELSE IF ~IsNum(suhu) THEN Raise("TypeError")
        ELSE LET organic_score == kadar_air.v * 400 + suhu.v * 300
                 inorganic_score == PerMille - organic_score
             IN  IF organic_score > inorganic_score
                 THEN Return("ORGANIK", organic_score)
                 ELSE Return("ANORGANIK", inorganic_score)

\* The fallback comparison inverted.
predict_lower_score(self, feats) ==
    LET berat == feats[1]
        volume == feats[2]
        kadar_air == feats[3]
        suhu == feats[4]
    IN  IF ~IsNum(kadar_air) THEN Raise("TypeError")
        ELSE IF kadar_air.v > 60 /\ ~IsNum(suhu) THEN Raise("TypeError")
        ELSE IF kadar_air.v > 60 /\ suhu.v > 25 THEN Return("ORGANIK", 850)
        ELSE IF ~IsNum(berat) THEN Raise("TypeError")
        ELSE IF berat.v < 50 /\ ~IsNum(volume) THEN Raise("TypeError")
        ELSE IF berat.v < 50 /\ volume.v < 100 THEN Return("ANORGANIK", 780)
        ELSE IF ~IsNum(suhu) THEN Raise("TypeError")
        ELSE LET organic_score == (kadar_air.v * 400 + suhu.v * 300) \div 100
                 inorganic_score == PerMille - organic_score
             IN  IF organic_score < inorganic_score
                 THEN Return("ORGANIK", organic_score)
                 ELSE Return("ANORGANIK", inorganic_score)

\* A confidence that drifts with the number of predictions already made.
predict_counting(self, feats) ==
    LET berat == feats[1]
        volume == feats[2]
        kadar_air == feats[3]
        suhu == feats[4]
    IN  IF ~IsNum(kadar_air) THEN Raise("TypeError")
        ELSE IF kadar_air.v > 60 /\ ~IsNum(suhu) THEN Raise("TypeError")
        ELSE IF kadar_air.v > 60 /\ suhu.v > 25 THEN Return("ORGANIK", 850 + Len(calls))
        ELSE IF ~IsNum(berat) THEN Raise("TypeError")
        ELSE IF berat.v < 50 /\ ~IsNum(volume) THEN Raise("TypeError")
        ELSE IF berat.v < 50 /\ volume.v < 100 THEN Return("ANORGANIK", 780 + Len(calls))
        ELSE IF ~IsNum(suhu) THEN Raise("TypeError")
        ELSE LET organic_score == (kadar_air.v * 400 + suhu.v * 300) \div 100
                 inorganic_score == PerMille - organic_score
             IN  IF organic_score > inorganic_score
                 THEN Return("ORGANIK", organic_score)
                 ELSE Return("ANORGANIK", inorganic_score)

\* WasteDetector.predict_waste_type(self, features)
predict_waste_type(self, feats) ==
    LET berat == feats[1]
        volume == feats[2]
        kadar_air == feats[3]
        suhu == feats[4]
    IN  IF ~IsNum(kadar_air) THEN Raise("TypeError")
        ELSE IF kadar_air.v > 60 /\ ~IsNum(suhu) THEN Raise("TypeError")
        ELSE IF kadar_air.v > 60 /\ suhu.v > 25 THEN Return("ORGANIK", 850)
        ELSE IF ~IsNum(berat) THEN Raise("TypeError")
        ELSE IF berat.v < 50 /\ ~IsNum(volume) THEN Raise("TypeError")
        ELSE IF berat.v < 50 /\ volume.v < 100 THEN Return("ANORGANIK", 780)
        ELSE IF ~IsNum(suhu) THEN Raise("TypeError")
        ELSE LET organic_score == (kadar_air.v * 400 + suhu.v * 300) \div 100
                 inorganic_score == PerMille - organic_score
             IN  IF organic_score > inorganic_score
                 THEN Return("ORGANIK", organic_score)
                 ELSE Return("ANORGANIK", inorganic_score)

\* detector.model['predict'](features)
model_predict(self, feats) == predict_waste_type(self, feats)

-----------------------------------------------------------------------------
\* main: detector = WasteDetector(); nothing uploaded, nothing rendered.
Idle ==
    /\ detector = WasteDetector
    /\ calls = <<>>
    /\ df = <<>>
    /\ final_df = <<>>
    /\ shown = FALSE
    /\ stats = [organic_count |-> 0, inorganic_count |-> 0]
    /\ download = FALSE
    /\ error = ""

-----------------------------------------------------------------------------
\* Spec: the classifier applied once to an arbitrary list of four numbers.

Init ==
    /\ Idle
    /\ uploaded_file = <<>>
    /\ \E b \in BeratValues, v \in VolumeValues, m \in KadarAirValues, s \in SuhuValues :
          features = <<Num(b), Num(v), Num(m), Num(s)>>
    /\ result = NoResult
    /\ pc = "input"

Predict ==
    /\ pc = "input"
    /\ result' = model_predict(detector, features)
    /\ pc' = "done"
    /\ UNCHANGED <<detector, features, calls, uploaded_file, df, final_df,
                   shown, stats, download, error>>

Next == Predict

Spec == Init /\ [][Next]_vars

-----------------------------------------------------------------------------
\* SpecCalls: one detector serving a sequence of predict calls.

CallInputs ==
    { <<Num(10), Num(10), Num(70), Num(30)>>,
      <<Num(20), Num(50), Num(10), Num(15)>>,
      <<Num(500), Num(500), Num(50), Num(20)>>,
      <<Num(500), Num(500), Num(60), Num(87)>>,
      <<Num(500), Num(500), Num(110), Num(20)>>,
      <<Num(-5), Num(-5), Num(0), Num(-10)>> }

InitCalls ==
    /\ Idle
    /\ uploaded_file = <<>>
    /\ features = <<>>
    /\ result = NoResult
    /\ pc = "ready"

\* A caller runs `waste_type, confidence = detector.model['predict'](features)`.
Call(feats) ==
    /\ pc = "ready"
    /\ Len(calls) < MaxCalls
    /\ features' = feats
    /\ result' = model_predict(detector, feats)
    /\ calls' = Append(calls, [features |-> feats, result |-> result'])
    /\ UNCHANGED <<detector, pc, uploaded_file, df, final_df, shown, stats,
                   download, error>>

NextCalls == \E feats \in CallInputs : Call(feats)

SpecCalls == InitCalls /\ [][NextCalls]_vars

-----------------------------------------------------------------------------
\* SpecBatch: csv_upload.  The uploaded table is text; Num(n) is a cell that
\* reads as the number n, Str(s) one that does not.

RowValues ==
    { <<Num(10), Num(10), Num(70), Num(30)>>,
      <<Num(20), Num(50), Num(10), Num(15)>>,
      <<Num(500), Num(500), Num(50), Num(20)>>,
      <<Num(500), Num(500), Num(60), Num(87)>>,
      <<Num(500), Num(500), Str("abc"), Num(20)>>,
      <<Num(20), Str("abc"), Num(10), Num(15)>>,
      <<Num(20), Num(50), Num(10), Str("abc")>>,
      <<Str("abc"), Num(500), Num(50), Num(20)>> }

Tables == UNION { [1..n -> RowValues] : n \in 0..MaxRows }

\* pd.read_csv: a column whose cells all read as numbers becomes numeric; a
\* column with any other cell keeps every one of its cells as text.
read_csv(file) ==
    LET numeric(c) == \A i \in 1..Len(file) : IsNum(file[i][c])
        text(cell) == IF IsNum(cell) THEN Str(ToString(cell.v)) ELSE cell
    IN  [i \in 1..Len(file) |->
            [c \in 1..4 |-> IF numeric(c) THEN file[i][c] ELSE text(file[i][c])]]

\* One row of results_df.
result_row(r) ==
    [Jenis_Sampah |-> r.label,
     Confidence |-> r.confidence,
     Rekomendasi |-> IF r.label = "ORGANIK" THEN "Kompos" ELSE "Daur Ulang"]

\* The loop with `results.insert(0, ...)` in place of `results.append(...)`.
RECURSIVE batch_loop_prepend(_, _, _, _)
batch_loop_prepend(self, frame, i, results) ==
    IF i > Len(frame) THEN [kind |-> "return", results |-> results]
    ELSE LET r == model_predict(self, frame[i])
         IN  IF r.kind = "raise" THEN r
             ELSE batch_loop_prepend(self, frame, i + 1, <<result_row(r)>> \o results)

\* for _, row in df.iterrows(): ... results.append({...}), from row i on; an
\* exception of the call leaves the loop.
RECURSIVE batch_loop(_, _, _, _)
batch_loop(self, frame, i, results) ==
    IF i > Len(frame) THEN [kind |-> "return", results |-> results]
    ELSE LET r == model_predict(self, frame[i])
         IN  IF r.kind = "raise" THEN r
             ELSE batch_loop(self, frame, i + 1, Append(results, result_row(r)))

\* pd.concat([df, results_df], axis=1): both frames carry the RangeIndex
\* 0..N-1, so row i of the one is joined with row i of the other.
concat(frame, results) ==
    [i \in 1..Len(frame) |->
        [row |-> frame[i],
         Jenis_Sampah |-> results[i].Jenis_Sampah,
         Confidence |-> results[i].Confidence,
         Rekomendasi |-> results[i].Rekomendasi]]

\* len(final_df[final_df['Jenis_Sampah'] == label])
count(frame, label) ==
    Cardinality({ i \in 1..Len(frame) : frame[i].Jenis_Sampah = label })

InitBatch ==
    /\ Idle
    /\ uploaded_file \in Tables
    /\ features = <<>>
    /\ result = NoResult
    /\ pc = "uploaded"

\* The script run after the upload: the table is read and previewed, the
\* button is drawn and not pressed.
RunPreview ==
    /\ pc = "uploaded"
    /\ df' = read_csv(uploaded_file)
    /\ pc' = "preview"
    /\ UNCHANGED <<detector, features, result, calls, uploaded_file, final_df,
                   shown, stats, download, error>>

\* The script run after "Proses Batch Detection" is pressed.
ProcessBatch ==
    /\ pc = "preview"
    /\ LET frame == read_csv(uploaded_file)
           loop == batch_loop(detector, frame, 1, <<>>)
       IN  /\ df' = frame
           /\ IF loop.kind = "raise"
              THEN \* the outer `except Exception` reports it; nothing else is drawn
                   /\ error' = loop.exc
                   /\ UNCHANGED <<final_df, shown, stats, download>>
              ELSE /\ final_df' = concat(frame, loop.results)
                   /\ shown' = TRUE
                   /\ IF loop.results = <<>>
                      THEN \* results_df has no columns: final_df['Jenis_Sampah']
                           \* raises KeyError after the table was drawn
                           /\ error' = "KeyError"
                           /\ UNCHANGED <<stats, download>>
                      ELSE /\ stats' = [organic_count |-> count(final_df', "ORGANIK"),
                                        inorganic_count |-> count(final_df', "ANORGANIK")]
                           /\ download' = TRUE
                           /\ error' = ""
    /\ pc' = "processed"
    /\ UNCHANGED <<detector, features, result, calls, uploaded_file>>

NextBatch == RunPreview \/ ProcessBatch

SpecBatch == InitBatch /\ [][NextBatch]_vars

-----------------------------------------------------------------------------
\* The inputs and the rules as the specification words them.

Done == pc = "done"
Berat == features[1].v
Volume == features[2].v
KadarAir == features[3].v
Suhu == features[4].v

Rule1 == KadarAir > 60 /\ Suhu > 25
Rule2 == Berat < 50 /\ Volume < 100

\* organic_score = (moisture*0.4 + temperature*0.3)/100, in thousandths.
Score == 4 * KadarAir + 3 * Suhu

Fallback ==
    IF Score > PerMille - Score
    THEN Return("ORGANIK", Score)
    ELSE Return("ANORGANIK", PerMille - Score)

\* C1: for all numeric inputs the confidence returned by predict_waste_type
\* lies in [0, 1].
C1_ConfidenceInUnitInterval ==
    Done => result.confidence >= 0 /\ result.confidence <= PerMille

\* C2: rule 1 has top priority: kadar_air > 60 and suhu > 25 give
\* (ORGANIK, 0.85) for every berat and volume, also where rule 2 would match;
\* at kadar_air = 60 or suhu = 25 rule 1 does not fire.
C2_Rule1Priority ==
    Done =>
        /\ Rule1 => result = Return("ORGANIK", 850)
        /\ (KadarAir = 60 \/ Suhu = 25) => result # Return("ORGANIK", 850)

C2_Witness ==
    Done /\ Rule1 /\ Rule2 /\ result = Return("ORGANIK", 850)

\* C3: when rule 1 does not match and berat < 50 and volume < 100, the result
\* is (ANORGANIK, 0.78) whatever kadar_air and suhu are; at berat = 50 or
\* volume = 100 rule 2 does not fire and the fallback score is used.
C3_Rule2 ==
    (Done /\ ~Rule1) =>
        /\ Rule2 => result = Return("ANORGANIK", 780)
        /\ (Berat = 50 \/ Volume = 100) => result = Fallback

C3_Witness ==
    /\ Done /\ Rule2 /\ KadarAir > 60 /\ Suhu <= 25
    /\ result = Return("ANORGANIK", 780)

\* C4: when neither rule matches, the result is (ORGANIK, organic_score) if
\* organic_score > 1 - organic_score strictly and (ANORGANIK, 1 - organic_score)
\* otherwise; a tie at 0.5 yields ANORGANIK; berat and volume have no influence
\* (berat=500, volume=500, kadar_air=50, suhu=20 gives (ANORGANIK, 0.74)).
C4_Fallback ==
    (Done /\ ~Rule1 /\ ~Rule2) =>
        /\ result = Fallback
        /\ 2 * Score = PerMille => result = Return("ANORGANIK", 500)
        /\ (KadarAir = 50 /\ Suhu = 20) => result = Return("ANORGANIK", 740)

C4_Witness ==
    /\ Done /\ ~Rule1 /\ ~Rule2 /\ 2 * Score = PerMille
    /\ result = Return("ANORGANIK", 500)

\* C5: predict_waste_type is total over numeric inputs: for every four
\* numbers, negative berat or volume and kadar_air outside [0,100] included,
\* it returns one of the two labels with a confidence, never an error or no
\* decision.
C5_Total ==
    Done =>
        /\ result.kind = "return"
        /\ result.label \in {"ORGANIK", "ANORGANIK"}
        /\ result.confidence \in Int

C5_Witness ==
    /\ Done /\ Berat < 0 /\ Volume < 0 /\ KadarAir < 0
    /\ result.kind = "return"

\* C9: for kadar_air in [0,100] and suhu <= 86 the fallback never returns
\* ORGANIK: the result is ORGANIK exactly when rule 1 fires, and every ORGANIK
\* result has confidence 0.85.
C9_OrganicOnlyByRule1 ==
    (Done /\ KadarAir >= 0 /\ KadarAir <= 100 /\ Suhu <= 86) =>
        /\ result.label = "ORGANIK" <=> Rule1
        /\ result.label = "ORGANIK" => result.confidence = 850

C9_Witness ==
    /\ Done /\ KadarAir = 60 /\ Suhu = 86 /\ ~Rule2
    /\ result = Return("ANORGANIK", 502)

\* C10: the confidence is at least 0.5 for every numeric input: 0.85 under
\* rule 1, 0.78 under rule 2, and in the fallback the larger of organic_score
\* and 1 - organic_score, the label being the one with the higher (on a tie,
\* equal) score.
C10_ConfidenceAtLeastHalf ==
    Done =>
        /\ 2 * result.confidence >= PerMille
        /\ Rule1 => result.confidence = 850
        /\ (~Rule1 /\ Rule2) => result.confidence = 780
        /\ (~Rule1 /\ ~Rule2) =>
              /\ result.confidence \in {Score, PerMille - Score}
              /\ result.confidence >= Score
              /\ result.confidence >= PerMille - Score
              /\ result.label = "ORGANIK" => result.confidence = Score
              /\ result.label = "ANORGANIK" => result.confidence = PerMille - Score

C10_Witness ==
    /\ Done /\ ~Rule1 /\ ~Rule2 /\ result.label = "ORGANIK"
    /\ result.confidence > 500

\* C6: batch mode turns a table of N rows into exactly N result rows in the
\* table's order, row i carrying the label and confidence predict_waste_type
\* returns for row i alone.
C6_BatchRowByRow ==
    pc = "processed" =>
        /\ (\A i \in 1..Len(df) : \A c \in 1..4 : IsNum(df[i][c])) => shown
        /\ shown =>
              /\ Len(final_df) = Len(uploaded_file)
              /\ \A i \in 1..Len(df) :
                    /\ final_df[i].row = df[i]
                    /\ final_df[i].Jenis_Sampah = model_predict(detector, df[i]).label
                    /\ final_df[i].Confidence = model_predict(detector, df[i]).confidence

C6_Witness ==
    /\ pc = "processed" /\ shown /\ Len(final_df) = 3
    /\ final_df[1].Jenis_Sampah = "ORGANIK"
    /\ final_df[2].Jenis_Sampah = "ANORGANIK"
    /\ final_df[3].Confidence = 740

\* The rows of df whose own classification raises.
RaisingRows == { i \in 1..Len(df) : model_predict(detector, df[i]).kind = "raise" }

\* C7: in batch mode a single row whose classification raises is skipped or
\* flagged without aborting the batch: the output is still produced and every
\* other row still receives its result.
C7_MalformedRowSkipped ==
    (pc = "processed" /\ Cardinality(RaisingRows) = 1 /\ Len(df) > 1) =>
        /\ shown
        /\ \A i \in (1..Len(df)) \ RaisingRows :
              \E j \in 1..Len(final_df) :
                 /\ final_df[j].row = df[i]
                 /\ final_df[j].Jenis_Sampah = model_predict(detector, df[i]).label

====
